---- MODULE Spec2Model ----
(***************************************************************************)
(* A model of src/redweatherSh.py (class WeatherApp): the load of the      *)
(* observation table, the validation of the five input widgets, the        *)
(* resolution of the requested instant against the table, the choice of    *)
(* the weather text and the monthly aggregates.                            *)
(*                                                                         *)
(* Strings a method inspects character by character (the entry widgets,    *)
(* the formatted dates) are sequences of one-character strings.  A cell of *)
(* the table that may be missing (NaN) is <<>> when missing and <<v>> when *)
(* it holds v.  A timestamp is a record of its five calendar fields; the   *)
(* order of timestamps is the order of TsKey.  Temperatures are integers   *)
(* and a mean is the exact fraction <<sum, count>>; floating-point         *)
(* rounding of the mean is outside the model.                              *)
(***************************************************************************)
EXTENDS Integers, Sequences, FiniteSets, TLC

VARIABLES
    raw,          \* the rows of weather.xls below the skipped header rows
    data,         \* self.data, <<>> before the load
    months_var,   \* self.months_var, the month OptionMenu's string
    years_var,    \* self.years_var
    day_entry,    \* self.day_entry's text
    hour_entry,   \* self.hour_entry's text
    minute_entry, \* self.minute_entry's text
    args,         \* the arguments of the method call in progress
    date,         \* self.date, Unset until first assigned
    next_date,    \* self.next_date, Unset until first assigned
    ret,          \* what the last method call returned or raised
    window,       \* the last result window rendered, NoWindow if none
    hist,         \* history of the requests: counts of failures and renders
    pc            \* the position of the scenario a specification runs

vars == <<raw, data, months_var, years_var, day_entry, hour_entry,
          minute_entry, args, date, next_date, ret, window, hist, pc>>

\* ------------------------------------------------------------------ bounds

\* The longest table a specification draws.
MaxRows == 3

\* The longest text typed into the day entry.
MaxStrLen == 3

\* ----------------------------------------------------------------- strings

DigitChars == <<"0", "1", "2", "3", "4", "5", "6", "7", "8", "9">>

IsDigit(c) == \E i \in 1..10 : DigitChars[i] = c

DigitVal(c) == (CHOOSE i \in 1..10 : DigitChars[i] = c) - 1

IsSpace(c) == c = " "

\* The characters the entry texts are drawn from.
EntryChars == {"0", "1", "2", "3", "7", "8", "9", "-", " ", "x"}

RECURSIVE SeqsUpTo(_, _)
SeqsUpTo(S, n) ==
    IF n = 0 THEN {<<>>}
    ELSE LET shorter == SeqsUpTo(S, n - 1)
         IN  shorter \cup {Append(s, c) : s \in {t \in shorter : Len(t) = n - 1}, c \in S}

RECURSIVE LStrip(_)
LStrip(s) == IF s # <<>> /\ IsSpace(Head(s)) THEN LStrip(Tail(s)) ELSE s

RECURSIVE RStrip(_)
RStrip(s) ==
    IF s # <<>> /\ IsSpace(s[Len(s)]) THEN RStrip(SubSeq(s, 1, Len(s) - 1)) ELSE s

RECURSIVE DigitsValue(_, _)
DigitsValue(s, acc) ==
    IF s = <<>> THEN acc ELSE DigitsValue(Tail(s), acc * 10 + DigitVal(Head(s)))

\* Python's int(str): surrounding whitespace is stripped, one sign is allowed,
\* and what remains must be one or more digits (an underscore may only stand
\* between two digits); anything else raises ValueError (ok = FALSE).
PyInt(s) ==
    LET t      == RStrip(LStrip(s))
        signed == t # <<>> /\ Head(t) \in {"-", "+"}
        body   == IF signed THEN Tail(t) ELSE t
    IN  IF body = <<>> \/ \E i \in 1..Len(body) : ~IsDigit(body[i])
        THEN [ok |-> FALSE, val |-> 0]
        ELSE IF signed /\ Head(t) = "-" THEN [ok |-> TRUE, val |-> 0 - DigitsValue(body, 0)]
        ELSE [ok |-> TRUE, val |-> DigitsValue(body, 0)]

\* format(n, "02d") for n >= 0.
RECURSIVE DigitsOf(_)
DigitsOf(n) ==
    IF n < 10 THEN <<DigitChars[n + 1]>>
    ELSE Append(DigitsOf(n \div 10), DigitChars[(n % 10) + 1])

Pad2(n) == IF n < 10 THEN <<"0">> \o DigitsOf(n) ELSE DigitsOf(n)

\* f"{day:02d}.{month:02d}.{year} {hour:02d}:{minute:02d}"
FormatDate(year, month, day, hour, minute) ==
    Pad2(day) \o <<".">> \o Pad2(month) \o <<".">> \o DigitsOf(year) \o <<" ">>
        \o Pad2(hour) \o <<":">> \o Pad2(minute)

\* The numeric fields of a string, split at its non-digit characters.
RECURSIVE NumFields(_, _, _)
NumFields(s, cur, acc) ==
    IF s = <<>> THEN Append(acc, cur)
    ELSE IF IsDigit(Head(s))
         THEN NumFields(Tail(s), cur * 10 + DigitVal(Head(s)), acc)
         ELSE NumFields(Tail(s), 0, Append(acc, cur))

\* pd.to_datetime(s, format='%d.%m.%Y %H:%M') of a well-formed string.
ToDatetime(s) ==
    LET f == NumFields(s, 0, <<>>)
    IN  [year |-> f[3], month |-> f[2], day |-> f[1], hour |-> f[4], minute |-> f[5]]

\* The order of timestamps: a timestamp's place on the time line.
TsKey(t) ==
    ((((t.year * 12 + (t.month - 1)) * 31 + (t.day - 1)) * 24 + t.hour) * 60) + t.minute

Unset == [unset |-> TRUE]

NoWindow == [none |-> TRUE]

\* A missing cell (NaN) and a cell that holds v.
NaN == <<>>

Cell(v) == <<v>>

IsNa(c) == c = <<>>

\* -------------------------------------------------------------------- load

\* A load that sorts the rows by time, ascending.
CleanDataSorted(table) ==
    LET parsed == [i \in 1..Len(table) |->
                      [Time |-> ToDatetime(table[i].Time), T |-> table[i].T,
                       P |-> table[i].P, WW |-> table[i].WW, W1 |-> table[i].W1]]
    IN  SortSeq(parsed, LAMBDA a, b : TsKey(a.Time) < TsKey(b.Time))

\* redweatherSh.py:31-49: the rows are kept as read, in the file's order, with
\* the time column renamed and parsed; nothing is sorted or dropped.
CleanData(table) ==
    [i \in 1..Len(table) |->
        [Time |-> ToDatetime(table[i].Time), T |-> table[i].T, P |-> table[i].P,
         WW |-> table[i].WW, W1 |-> table[i].W1]]

\* -------------------------------------------------------------- validation

\* What a method call gives back: a value, or the ValueError it raises.
Return(v) == [raised |-> FALSE, value |-> v]

Raise(msg) == [raised |-> TRUE, value |-> msg]

NoRet == [raised |-> FALSE, value |-> <<"none">>]

\* The messages of the ValueErrors, by the line that raises each.
MsgNoMonth == <<"month not selected">>

MsgNoYear == <<"year not selected">>

MsgNoDay == <<"day not entered">>

MsgDayDigits == <<"day: at most 2 digits">>

MsgDayRange(month, max_days) == <<"day: from 1 to", Pad2(month), max_days>>

MsgNoHour == <<"hour not entered">>

MsgHourDigits == <<"hour: at most 2 digits">>

MsgHourRange == <<"hour: from 0 to 23">>

MsgNoMinute == <<"minutes not entered">>

MsgMinuteDigits == <<"minutes: at most 2 digits">>

MsgMinuteRange == <<"minutes: from 0 to 59">>

\* int() names the literal it could not read.
MsgNotInt(s) == <<"invalid literal for int()", s>>

MsgNoMonthData == <<"no information for this month">>

MsgNotForecast == <<"the application is not a forecast">>

MsgSince2005 == <<"observations available since 1 February 2005">>

\* The strings the month and year menus offer (redweatherSh.py:61, 70).
MonthOptions == {Pad2(i) : i \in 1..12}

YearOptions == {DigitsOf(i) : i \in 2005..2024}

\* calendar.isleap
IsLeap(year) == year % 4 = 0 /\ (year % 100 # 0 \/ year % 400 = 0)

\* calendar.mdays
MDays == <<31, 28, 31, 30, 31, 30, 31, 31, 30, 31, 30, 31>>

\* calendar.monthrange(year, month)[1]
MonthRangeDays(year, month) ==
    MDays[month] + (IF month = 2 /\ IsLeap(year) THEN 1 ELSE 0)

\* redweatherSh.py:129-141
GetValidatedMonth(month) ==
    IF month = <<>> THEN Raise(MsgNoMonth) ELSE Return(PyInt(month).val)

\* redweatherSh.py:143-155
GetValidatedYear(year) ==
    IF year = <<>> THEN Raise(MsgNoYear) ELSE Return(PyInt(year).val)

\* The day validation with the length test off by one.
GetValidatedDayLen3(day_str, year, month) ==
    IF day_str = <<>> THEN Raise(MsgNoDay)
    ELSE IF Len(day_str) > 3 THEN Raise(MsgDayDigits)
    ELSE LET parsed   == PyInt(day_str)
             day      == parsed.val
             max_days == MonthRangeDays(year, month)
         IN  IF ~parsed.ok THEN Raise(MsgNotInt(day_str))
             ELSE IF day < 1 \/ day > max_days THEN Raise(MsgDayRange(month, max_days))
             ELSE Return(day)

\* redweatherSh.py:157-183
GetValidatedDay(day_str, year, month) ==
    IF day_str = <<>> THEN Raise(MsgNoDay)
    ELSE IF Len(day_str) > 2 THEN Raise(MsgDayDigits)
    ELSE LET parsed   == PyInt(day_str)
             day      == parsed.val
             max_days == MonthRangeDays(year, month)
         IN  IF ~parsed.ok THEN Raise(MsgNotInt(day_str))
             ELSE IF day < 1 \/ day > max_days THEN Raise(MsgDayRange(month, max_days))
             ELSE Return(day)

\* redweatherSh.py:185-204
GetValidatedHour(hour_str) ==
    IF hour_str = <<>> THEN Raise(MsgNoHour)
    ELSE IF Len(hour_str) > 2 THEN Raise(MsgHourDigits)
    ELSE LET parsed == PyInt(hour_str)
             hour == parsed.val
         IN  IF ~parsed.ok THEN Raise(MsgNotInt(hour_str))
             ELSE IF hour < 0 \/ hour > 23 THEN Raise(MsgHourRange)
             ELSE Return(hour)

\* redweatherSh.py:206-225
GetValidatedMinute(minute_str) ==
    IF minute_str = <<>> THEN Raise(MsgNoMinute)
    ELSE IF Len(minute_str) > 2 THEN Raise(MsgMinuteDigits)
    ELSE LET parsed == PyInt(minute_str)
             minute == parsed.val
         IN  IF ~parsed.ok THEN Raise(MsgNotInt(minute_str))
             ELSE IF minute < 0 \/ minute > 59 THEN Raise(MsgMinuteRange)
             ELSE Return(minute)

\* ---------------------------------------------------------------- resolver

\* dataframe[mask] is SelectSeq: the rows that satisfy the mask, in the
\* frame's order.

\* (data['Time'].dt.year == year) & (data['Time'].dt.month == month)
InMonth(df, year, month) ==
    LET Test(r) == r.Time.year = year /\ r.Time.month = month
    IN  SelectSeq(df, Test)

MsgIndexError == <<"IndexError: single positional indexer is out-of-bounds">>

\* The tail subset without the rows at the requested instant itself.
StrictlyAfter(df, d) ==
    LET Test(r) == TsKey(r.Time) > TsKey(d)
    IN  SelectSeq(df, Test)

\* The tail subset with the comparison turned round.
NotAfter(df, d) ==
    LET Test(r) == TsKey(r.Time) =< TsKey(d)
    IN  SelectSeq(df, Test)

\* data[data['Time'] >= date]  (redweatherSh.py:251)
NotBefore(df, d) ==
    LET Test(r) == TsKey(r.Time) >= TsKey(d)
    IN  SelectSeq(df, Test)

\* date in data['Time'].values  (redweatherSh.py:252)
InTimes(df, d) == \E i \in 1..Len(df) : df[i].Time = d

\* The first row of the frame instead of the last.
ILocFirst(df) == df[1].Time

\* next_data.iloc[-1, 0]: the time column of the frame's last row.
ILocLast(df) == df[Len(df)].Time

\* The resolver with the coverage test made against the month's rows.
CheckDataExistsMonthLen(df, year, month, day, hour, minute, old_next) ==
    LET d         == ToDatetime(FormatDate(year, month, day, hour, minute))
        filtered  == InMonth(df, year, month)
        next_data == NotBefore(df, d)
        failed(m) == [date |-> d, next_date |-> old_next, ret |-> Raise(m)]
    IN  IF filtered = <<>> THEN failed(MsgNoMonthData)
        ELSE IF ~InTimes(df, d) /\ next_data = <<>> THEN failed(MsgNotForecast)
        ELSE IF ~InTimes(df, d) /\ Len(next_data) = Len(filtered) THEN failed(MsgSince2005)
        ELSE IF next_data = <<>> THEN failed(MsgIndexError)
        ELSE [date |-> d, next_date |-> ILocLast(next_data), ret |-> Return(<<"None">>)]

\* redweatherSh.py:227-259.  self.date is assigned before any check;
\* self.next_date only on the way out, so a raise leaves it as it was.
CheckDataExists(df, year, month, day, hour, minute, old_next) ==
    LET d         == ToDatetime(FormatDate(year, month, day, hour, minute))
        filtered  == InMonth(df, year, month)
        next_data == NotBefore(df, d)
        failed(m) == [date |-> d, next_date |-> old_next, ret |-> Raise(m)]
    IN  IF filtered = <<>> THEN failed(MsgNoMonthData)
        ELSE IF ~InTimes(df, d) /\ next_data = <<>> THEN failed(MsgNotForecast)
        ELSE IF ~InTimes(df, d) /\ Len(next_data) = Len(df) THEN failed(MsgSince2005)
        ELSE IF next_data = <<>> THEN failed(MsgIndexError)
        ELSE [date |-> d, next_date |-> ILocLast(next_data), ret |-> Return(<<"None">>)]

\* ------------------------------------------------------------ weather text

SynopticHours == {3, 6, 9, 12, 15, 18, 21}

NoWeatherInfo == "no information about the weather"

\* data.loc[data['Time'] == t, column]
AtTime(df, t) ==
    LET Test(r) == r.Time = t
    IN  SelectSeq(df, Test)

\* The weather text read at the requested minute, not at the full hour.
GetWeatherTextNoFloor(df, nd, year, month, day, hour, minute) ==
    LET exact_date   == ToDatetime(FormatDate(year, month, day, hour, minute))
        weather      == AtTime(df, exact_date)
        next_weather == AtTime(df, nd)
    IN  IF hour \in SynopticHours /\ weather # <<>> /\ ~IsNa(weather[1].WW)
        THEN weather[1].WW[1]
        ELSE IF next_weather # <<>> /\ ~IsNa(next_weather[1].W1)
             THEN next_weather[1].W1[1]
             ELSE NoWeatherInfo

\* redweatherSh.py:315-344
GetWeatherText(df, nd, year, month, day, hour, minute) ==
    LET exact_date   == ToDatetime(FormatDate(year, month, day, hour, 0))
        weather      == AtTime(df, exact_date)
        next_weather == AtTime(df, nd)
    IN  IF hour \in SynopticHours /\ weather # <<>> /\ ~IsNa(weather[1].WW)
        THEN weather[1].WW[1]
        ELSE IF next_weather # <<>> /\ ~IsNa(next_weather[1].W1)
             THEN next_weather[1].W1[1]
             ELSE NoWeatherInfo

\* -------------------------------------------------------------- aggregates

\* Time.dt.date
DateOf(t) == [year |-> t.year, month |-> t.month, day |-> t.day]

DateKey(d) == (d.year * 12 + (d.month - 1)) * 31 + (d.day - 1)

\* The elements of a set of dates, ascending: the order groupby gives its keys.
RECURSIVE SortedDates(_)
SortedDates(S) ==
    IF S = {} THEN <<>>
    ELSE LET first == CHOOSE d \in S : \A e \in S : DateKey(d) <= DateKey(e)
         IN  <<first>> \o SortedDates(S \ {first})

\* Series.mean() of a group: NaN cells are skipped; a group with no value
\* left has the mean NaN.  A mean is the fraction <<sum, count>>.
RECURSIVE SumT(_)
SumT(rows) ==
    IF rows = <<>> THEN 0
    ELSE (IF IsNa(Head(rows).T) THEN 0 ELSE Head(rows).T[1]) + SumT(Tail(rows))

RECURSIVE CountT(_)
CountT(rows) ==
    IF rows = <<>> THEN 0
    ELSE (IF IsNa(Head(rows).T) THEN 0 ELSE 1) + CountT(Tail(rows))

\* A mean that divides by the number of rows, missing ones included.
MeanTAllRows(rows) == <<SumT(rows), Len(rows)>>

MeanT(rows) == IF CountT(rows) = 0 THEN NaN ELSE <<SumT(rows), CountT(rows)>>

OnDate(df, d) ==
    LET Test(r) == DateOf(r.Time) = d
    IN  SelectSeq(df, Test)

\* filtered.groupby(filtered['Time'].dt.date)['T'].mean()
\* (redweatherSh.py:376-380, 430-434): one entry per date that has a row.
DailyAvg(df, year, month) ==
    LET filtered == InMonth(df, year, month)
        keys     == SortedDates({DateOf(filtered[i].Time) : i \in 1..Len(filtered)})
    IN  [k \in 1..Len(keys) |-> [date |-> keys[k], mean |-> MeanT(OnDate(filtered, keys[k]))]]

\* Comparison of two means that are not NaN.
MeanLE(a, b) == a[1] * b[2] <= b[1] * a[2]

MeanEq(a, b) == a[1] * b[2] = b[1] * a[2]

\* Series.max(): NaN entries are skipped; NaN when nothing is left.
SeriesMax(avg) ==
    LET present == {k \in 1..Len(avg) : ~IsNa(avg[k].mean)}
    IN  IF present = {} THEN NaN
        ELSE avg[CHOOSE k \in present : \A j \in present : MeanLE(avg[j].mean, avg[k].mean)].mean

\* day.strftime('%Y-%m-%d')
StrfDate(d) == DigitsOf(d.year) \o <<"-">> \o Pad2(d.month) \o <<"-">> \o Pad2(d.day)

\* Only the first day that reaches the maximum.
FirstEqualToMax(avg, max_temp) ==
    LET Test(e) == ~IsNa(e.mean) /\ ~IsNa(max_temp) /\ MeanEq(e.mean, max_temp)
        all     == SelectSeq(avg, Test)
    IN  IF all = <<>> THEN <<>> ELSE <<all[1]>>

\* daily_avg[daily_avg == max_temp]: a NaN equals nothing.
EqualToMax(avg, max_temp) ==
    LET Test(e) == ~IsNa(e.mean) /\ ~IsNa(max_temp) /\ MeanEq(e.mean, max_temp)
    IN  SelectSeq(avg, Test)

\* redweatherSh.py:420-438
GetMaxTempInfo(df, year, month) ==
    LET daily_avg == DailyAvg(df, year, month)
        max_temp  == SeriesMax(daily_avg)
        max_days  == EqualToMax(daily_avg, max_temp)
    IN  [max_temp |-> max_temp,
         max_days_str |-> [k \in 1..Len(max_days) |-> StrfDate(max_days[k].date)]]

\* redweatherSh.py:469-485: the minimum of the raw pressures of the month (NaN
\* skipped) and the times of the rows that hold it.
GetMinPressureInfo(df, year, month) ==
    LET filtered  == InMonth(df, year, month)
        present   == {i \in 1..Len(filtered) : ~IsNa(filtered[i].P)}
        min_press == IF present = {} THEN NaN
                     ELSE filtered[CHOOSE i \in present :
                              \A j \in present : filtered[i].P[1] <= filtered[j].P[1]].P
        Test(r)   == ~IsNa(r.P) /\ r.P = min_press
        rows      == SelectSeq(filtered, Test)
    IN  [min_press |-> min_press, min_days |-> [k \in 1..Len(rows) |-> rows[k].Time]]

\* redweatherSh.py:519-527: the hours and the temperatures of the day's rows.
DayTemps(df, year, month, day) ==
    LET Test(r) == r.Time.year = year /\ r.Time.month = month /\ r.Time.day = day
        rows    == SelectSeq(df, Test)
    IN  [k \in 1..Len(rows) |-> [hour |-> rows[k].Time.hour, T |-> rows[k].T]]

\* --------------------------------------------------------- the request

\* redweatherSh.py:261-288 with 290-313: what the result window shows.  The
\* label reads self.date and _get_weather_text reads self.next_date, the
\* attributes as they are when the window is built.
ShowResultsWindow(df, d, nd, year, month, day, hour, minute) ==
    [date         |-> d,
     next_date    |-> nd,
     weather_text |-> GetWeatherText(df, nd, year, month, day, hour, minute),
     daily_avg    |-> DailyAvg(df, year, month),
     max_temp     |-> GetMaxTempInfo(df, year, month),
     min_pressure |-> GetMinPressureInfo(df, year, month),
     day_temps    |-> DayTemps(df, year, month, day)]

\* The request with a window whose label reads the date as it was before
\* the request.
ValidateInputStale(df, mv, yv, de, he, me, old_date, old_next) ==
    LET month  == GetValidatedMonth(mv)
        year   == GetValidatedYear(yv)
        day    == GetValidatedDay(de, year.value, month.value)
        hour   == GetValidatedHour(he)
        minute == GetValidatedMinute(me)
        chk    == CheckDataExists(df, year.value, month.value, day.value,
                                  hour.value, minute.value, old_next)
        stop(r) == [date |-> old_date, next_date |-> old_next, ret |-> r,
                    window |-> NoWindow]
    IN  IF month.raised THEN stop(month)
        ELSE IF year.raised THEN stop(year)
        ELSE IF day.raised THEN stop(day)
        ELSE IF hour.raised THEN stop(hour)
        ELSE IF minute.raised THEN stop(minute)
        ELSE IF chk.ret.raised
             THEN [date |-> chk.date, next_date |-> chk.next_date, ret |-> chk.ret,
                   window |-> NoWindow]
             ELSE [date |-> chk.date, next_date |-> chk.next_date, ret |-> chk.ret,
                   window |-> ShowResultsWindow(df, old_date, chk.next_date,
                                  year.value, month.value, day.value,
                                  hour.value, minute.value)]

\* redweatherSh.py:110-127: the five validations in the order month, year,
\* day, hour, minute, then the resolver, then the window.  The first raise
\* ends the request; a ValueError is shown in a message box.  The attributes
\* date and next_date come out as _check_data_exists left them.
ValidateInput(df, mv, yv, de, he, me, old_date, old_next) ==
    LET month  == GetValidatedMonth(mv)
        year   == GetValidatedYear(yv)
        day    == GetValidatedDay(de, year.value, month.value)
        hour   == GetValidatedHour(he)
        minute == GetValidatedMinute(me)
        chk    == CheckDataExists(df, year.value, month.value, day.value,
                                  hour.value, minute.value, old_next)
        stop(r) == [date |-> old_date, next_date |-> old_next, ret |-> r,
                    window |-> NoWindow]
    IN  IF month.raised THEN stop(month)
        ELSE IF year.raised THEN stop(year)
        ELSE IF day.raised THEN stop(day)
        ELSE IF hour.raised THEN stop(hour)
        ELSE IF minute.raised THEN stop(minute)
        ELSE IF chk.ret.raised
             THEN [date |-> chk.date, next_date |-> chk.next_date, ret |-> chk.ret,
                   window |-> NoWindow]
             ELSE [date |-> chk.date, next_date |-> chk.next_date, ret |-> chk.ret,
                   window |-> ShowResultsWindow(df, chk.date, chk.next_date,
                                  year.value, month.value, day.value,
                                  hour.value, minute.value)]

\* ======================================================== the state machine

Row(time, t, p, ww, w1) == [Time |-> time, T |-> t, P |-> p, WW |-> ww, W1 |-> w1]

NoArgs == [year |-> 0, month |-> 0, day |-> 0, hour |-> 0, minute |-> 0]

NoHist == [prev |-> "none", last |-> "none", fresh |-> FALSE]

\* The widgets and attributes as __init__ leaves them.
WidgetsEmpty ==
    /\ months_var = <<>>
    /\ years_var = <<>>
    /\ day_entry = <<>>
    /\ hour_entry = <<>>
    /\ minute_entry = <<>>

AttrsUnset ==
    /\ date = Unset
    /\ next_date = Unset
    /\ ret = NoRet
    /\ window = NoWindow
    /\ hist = NoHist

\* ---------------------------------------------------- the load (SpecLoad)

LoadTimes ==
    {FormatDate(2023, 1, 2, 3, 0), FormatDate(2023, 1, 1, 3, 30),
     FormatDate(2022, 12, 31, 21, 0), FormatDate(2023, 2, 1, 0, 0)}

LoadRows == {Row(t, x, NaN, NaN, NaN) : t \in LoadTimes, x \in {NaN, Cell(10)}}

InitLoad ==
    /\ raw \in SeqsUpTo(LoadRows, MaxRows)
    /\ data = <<>>
    /\ args = NoArgs
    /\ pc = "start"
    /\ WidgetsEmpty
    /\ AttrsUnset

\* redweatherSh.py:25: self.data = self._clean_data()
Load ==
    /\ pc = "start"
    /\ data' = CleanData(raw)
    /\ pc' = "loaded"
    /\ UNCHANGED <<raw, months_var, years_var, day_entry, hour_entry, minute_entry,
                   args, date, next_date, ret, window, hist>>

SpecLoad == InitLoad /\ [][Load]_vars

\* ----------------------------------------- the day validation (SpecDay)

\* The years the day validation is run for: a common and a leap year of the
\* year menu.
DayYears == {DigitsOf(2023), DigitsOf(2024)}

InitDay ==
    /\ raw = <<>>
    /\ data = <<>>
    /\ months_var \in MonthOptions
    /\ years_var \in DayYears
    /\ day_entry \in SeqsUpTo(EntryChars, MaxStrLen)
    /\ hour_entry = <<>>
    /\ minute_entry = <<>>
    /\ args = NoArgs
    /\ pc = "input"
    /\ AttrsUnset

\* redweatherSh.py:117-119: month and year are validated, then
\* day = self._get_validated_day(year, month)
CallGetValidatedDay ==
    /\ pc = "input"
    /\ LET month == GetValidatedMonth(months_var).value
           year  == GetValidatedYear(years_var).value
       IN  /\ args' = [NoArgs EXCEPT !.year = year, !.month = month]
           /\ ret' = GetValidatedDay(day_entry, year, month)
    /\ pc' = "done"
    /\ UNCHANGED <<raw, data, months_var, years_var, day_entry, hour_entry,
                   minute_entry, date, next_date, window, hist>>

SpecDay == InitDay /\ [][CallGetValidatedDay]_vars

\* ------------------------------------------- the resolver (SpecResolve)

ResolveTimes ==
    {FormatDate(2023, 1, 1, 3, 30), FormatDate(2023, 1, 2, 3, 0),
     FormatDate(2023, 2, 1, 3, 30), FormatDate(2023, 3, 2, 3, 0)}

ResolveRows == {Row(t, NaN, NaN, NaN, NaN) : t \in ResolveTimes}

ResolveArgs ==
    [year : {2023}, month : {1, 2, 3}, day : {1, 2}, hour : {3}, minute : {0, 30}]

InitResolve ==
    /\ raw \in SeqsUpTo(ResolveRows, MaxRows)
    /\ data = CleanData(raw)
    /\ args \in ResolveArgs
    /\ pc = "ready"
    /\ WidgetsEmpty
    /\ AttrsUnset

\* redweatherSh.py:123
CallCheckDataExists ==
    /\ pc = "ready"
    /\ LET chk == CheckDataExists(data, args.year, args.month, args.day,
                                  args.hour, args.minute, next_date)
       IN  /\ date' = chk.date
           /\ next_date' = chk.next_date
           /\ ret' = chk.ret
    /\ pc' = "resolved"
    /\ UNCHANGED <<raw, data, months_var, years_var, day_entry, hour_entry,
                   minute_entry, args, window, hist>>

SpecResolve == InitResolve /\ [][CallCheckDataExists]_vars

\* ------------------------------------------ the weather text (SpecSelect)

SelectClock == {<<3, 0>>, <<3, 30>>, <<4, 30>>}

\* The codes a row may hold: a code names the time it was observed at, so
\* that the row a text was read from is told by the text.
WWCode(c) ==
    CASE c = <<3, 0>> -> "rain" [] c = <<3, 30>> -> "snow" [] OTHER -> "hail"

W1Code(c) ==
    CASE c = <<3, 0>> -> "fog" [] c = <<3, 30>> -> "mist" [] OTHER -> "haze"

SelectRows ==
    {Row(FormatDate(2023, 1, 1, c[1], c[2]), NaN, NaN, ww, w1) :
        c \in SelectClock, ww \in {NaN, Cell("ww")}, w1 \in {NaN, Cell("w1")}}

\* The same rows with every present code replaced by the code of its time.
Coded(table) ==
    [i \in 1..Len(table) |->
        LET t == ToDatetime(table[i].Time)
            c == <<t.hour, t.minute>>
        IN  [table[i] EXCEPT
                !.WW = IF IsNa(@) THEN NaN ELSE Cell(WWCode(c)),
                !.W1 = IF IsNa(@) THEN NaN ELSE Cell(W1Code(c))]]

SelectArgs ==
    [year : {2023}, month : {1}, day : {1}, hour : {3, 4}, minute : {0, 30}]

InitSelect ==
    /\ raw \in {Coded(t) : t \in SeqsUpTo(SelectRows, MaxRows)}
    /\ data = CleanData(raw)
    /\ args \in SelectArgs
    /\ pc = "ready"
    /\ WidgetsEmpty
    /\ AttrsUnset

\* redweatherSh.py:301, reached from 124 only when 123 did not raise.
CallGetWeatherText ==
    /\ pc = "resolved"
    /\ ~ret.raised
    /\ ret' = Return(GetWeatherText(data, next_date, args.year, args.month, args.day,
                                    args.hour, args.minute))
    /\ pc' = "selected"
    /\ UNCHANGED <<raw, data, months_var, years_var, day_entry, hour_entry,
                   minute_entry, args, date, next_date, window, hist>>

SpecSelect == InitSelect /\ [][CallCheckDataExists \/ CallGetWeatherText]_vars

\* ---------------------------------------- the monthly aggregates (SpecAgg)

AggCells == [month : {1, 2}, day : {1, 2}, T : {NaN, Cell(10), Cell(20), Cell(30)}]

\* Row i is observed at hour 3 * (i - 1) of its day: no two rows share a time.
AggTable(cells) ==
    [i \in 1..Len(cells) |->
        Row(FormatDate(2023, cells[i].month, cells[i].day, 3 * (i - 1), 0),
            cells[i].T, NaN, NaN, NaN)]

AggArgs == [year : {2023}, month : {1, 2}, day : {1}, hour : {0}, minute : {0}]

InitAgg ==
    /\ raw \in {AggTable(c) : c \in SeqsUpTo(AggCells, MaxRows)}
    /\ data = CleanData(raw)
    /\ args \in AggArgs
    /\ pc = "ready"
    /\ WidgetsEmpty
    /\ AttrsUnset

\* redweatherSh.py:361 -> 376-380
CallDailyAvg ==
    /\ pc = "ready"
    /\ ret' = Return(DailyAvg(data, args.year, args.month))
    /\ pc' = "daily_avg"
    /\ UNCHANGED <<raw, data, months_var, years_var, day_entry, hour_entry,
                   minute_entry, args, date, next_date, window, hist>>

\* redweatherSh.py:399
CallGetMaxTempInfo ==
    /\ pc = "ready"
    /\ ret' = Return(GetMaxTempInfo(data, args.year, args.month))
    /\ pc' = "max_temp"
    /\ UNCHANGED <<raw, data, months_var, years_var, day_entry, hour_entry,
                   minute_entry, args, date, next_date, window, hist>>

SpecAgg == InitAgg /\ [][CallDailyAvg \/ CallGetMaxTempInfo]_vars

\* ------------------------------------------- the requests (SpecRequests)

\* Three tables of January 2023: one whose first record is later than the
\* first instant a request can name, one whose last record is earlier than
\* the last such instant, one in the file's usual newest-first order.
RequestTables ==
    {<<Row(FormatDate(2023, 1, 1, 3, 30), Cell(10), Cell(750), NaN, Cell("fog")),
       Row(FormatDate(2023, 1, 31, 3, 0), Cell(30), Cell(740), Cell("rain"), NaN)>>,
     <<Row(FormatDate(2023, 1, 1, 3, 0), NaN, Cell(740), Cell("snow"), NaN),
       Row(FormatDate(2023, 1, 31, 3, 0), Cell(30), NaN, NaN, Cell("mist")),
       Row(FormatDate(2023, 1, 31, 3, 30), Cell(10), Cell(740), NaN, Cell("haze"))>>,
     <<Row(FormatDate(2023, 1, 31, 3, 30), Cell(10), Cell(750), NaN, Cell("haze")),
       Row(FormatDate(2023, 1, 31, 3, 0), Cell(10), Cell(745), Cell("rain"), NaN),
       Row(FormatDate(2023, 1, 1, 3, 0), Cell(30), Cell(745), NaN, Cell("fog"))>>}

\* What the user picks and types.
ReqMonths == {Pad2(1), Pad2(2)}

ReqYears == {DigitsOf(2023)}

ReqDays == {<<>>, <<"1">>, <<"3", "1">>, <<"0", "0", "7">>}

ReqHours == {<<>>, <<"3">>, <<"2", "4">>}

ReqMinutes == {<<>>, <<"0">>, <<"3", "0">>, <<"x">>}

InitRequests ==
    /\ raw \in RequestTables
    /\ data = <<>>
    /\ args = NoArgs
    /\ pc = "start"
    /\ WidgetsEmpty
    /\ AttrsUnset

\* WeatherApp.__init__ (redweatherSh.py:19-29)
Construct ==
    /\ pc = "start"
    /\ data' = CleanData(raw)
    /\ pc' = "ready"
    /\ UNCHANGED <<raw, months_var, years_var, day_entry, hour_entry, minute_entry,
                   args, date, next_date, ret, window, hist>>

Edited == hist' = [hist EXCEPT !.fresh = FALSE]

SelectMonth ==
    /\ pc = "ready"
    /\ \E m \in ReqMonths : months_var' = m
    /\ Edited
    /\ UNCHANGED <<raw, data, years_var, day_entry, hour_entry, minute_entry, args,
                   date, next_date, ret, window, pc>>

SelectYear ==
    /\ pc = "ready"
    /\ \E y \in ReqYears : years_var' = y
    /\ Edited
    /\ UNCHANGED <<raw, data, months_var, day_entry, hour_entry, minute_entry, args,
                   date, next_date, ret, window, pc>>

TypeDay ==
    /\ pc = "ready"
    /\ \E s \in ReqDays : day_entry' = s
    /\ Edited
    /\ UNCHANGED <<raw, data, months_var, years_var, hour_entry, minute_entry, args,
                   date, next_date, ret, window, pc>>

TypeHour ==
    /\ pc = "ready"
    /\ \E s \in ReqHours : hour_entry' = s
    /\ Edited
    /\ UNCHANGED <<raw, data, months_var, years_var, day_entry, minute_entry, args,
                   date, next_date, ret, window, pc>>

TypeMinute ==
    /\ pc = "ready"
    /\ \E s \in ReqMinutes : minute_entry' = s
    /\ Edited
    /\ UNCHANGED <<raw, data, months_var, years_var, day_entry, hour_entry, args,
                   date, next_date, ret, window, pc>>

\* The submit button (redweatherSh.py:96): one _validate_input call.  window
\* is the result window this request opened, NoWindow when it opened none.
Submit ==
    /\ pc = "ready"
    /\ LET r == ValidateInput(data, months_var, years_var, day_entry, hour_entry,
                              minute_entry, date, next_date)
       IN  /\ date' = r.date
           /\ next_date' = r.next_date
           /\ ret' = r.ret
           /\ window' = r.window
           /\ hist' = [prev  |-> hist.last,
                       last  |-> IF r.window = NoWindow THEN "failed" ELSE "rendered",
                       fresh |-> TRUE]
    /\ UNCHANGED <<raw, data, months_var, years_var, day_entry, hour_entry,
                   minute_entry, args, pc>>

NextRequests ==
    Construct \/ SelectMonth \/ SelectYear \/ TypeDay \/ TypeHour \/ TypeMinute \/ Submit

SpecRequests == InitRequests /\ [][NextRequests]_vars

\* ================================================================ properties

\* The calendar order of two timestamps, field by field.
Earlier(a, b) ==
    \/ a.year < b.year
    \/ a.year = b.year /\ a.month < b.month
    \/ a.year = b.year /\ a.month = b.month /\ a.day < b.day
    \/ a.year = b.year /\ a.month = b.month /\ a.day = b.day /\ a.hour < b.hour
    \/ /\ a.year = b.year /\ a.month = b.month /\ a.day = b.day /\ a.hour = b.hour
       /\ a.minute < b.minute

Rows == 1..Len(data)

\* The rows at or after the instant t, and the last and first of them in the
\* order of the table.
TailOf(t) == {i \in Rows : ~Earlier(data[i].Time, t)}

LastOfTail(t) == CHOOSE i \in TailOf(t) : \A j \in TailOf(t) : j =< i

FirstOfTail(t) == CHOOSE i \in TailOf(t) : \A j \in TailOf(t) : i =< j

ExactMatch(t) == \E i \in Rows : data[i].Time = t

MonthHasRecord(year, month) ==
    \E i \in Rows : data[i].Time.year = year /\ data[i].Time.month = month

LaterThanAll(t) == Rows # {} /\ \A i \in Rows : Earlier(data[i].Time, t)

EarlierThanAll(t) == Rows # {} /\ \A i \in Rows : Earlier(t, data[i].Time)

C2_Original ==
    (pc = "resolved" /\ LaterThanAll(args))
        => (ret.raised /\ ret.value = MsgNotForecast)

\* C2 amended: a requested instant later than every record raises the "not a
\* forecast" error when its month has a record, and the "no information for
\* this month" error when it has none.
C2_FutureInCoveredMonth ==
    (pc = "resolved" /\ LaterThanAll(args))
        => /\ ret.raised
           /\ ret.value = IF MonthHasRecord(args.year, args.month)
                          THEN MsgNotForecast ELSE MsgNoMonthData

C2_Witness ==
    /\ pc = "resolved"
    /\ LaterThanAll(args)
    /\ MonthHasRecord(args.year, args.month)
    /\ Len(data) > 1
    /\ ret = Raise(MsgNotForecast)

\* ---- C3 ----
\* C3 as stated: a requested instant earlier than every record of a non-empty
\* table makes the resolver raise the "available since 1 February 2005" error
\* and no other.
C3_Original ==
    (pc = "resolved" /\ EarlierThanAll(args))
        => (ret.raised /\ ret.value = MsgSince2005)

\* C3 amended: a requested instant earlier than every record raises the
\* "available since 1 February 2005" error when its month has a record, and
\* the "no information for this month" error when it has none.
C3_PastInCoveredMonth ==
    (pc = "resolved" /\ EarlierThanAll(args))
        => /\ ret.raised
           /\ ret.value = IF MonthHasRecord(args.year, args.month)
                          THEN MsgSince2005 ELSE MsgNoMonthData

C3_Witness ==
    /\ pc = "resolved"
    /\ EarlierThanAll(args)
    /\ MonthHasRecord(args.year, args.month)
    /\ \E i \in Rows : data[i].Time.month # args.month
    /\ ret = Raise(MsgSince2005)

\* ---- C10 ----
\* C10: the resolver never fails on an empty tail subset, and whenever it
\* returns without error the tail subset is not empty and next_date is the
\* timestamp of a record of the table, not earlier than the requested instant.
C10_NextDateIsLaterRecord ==
    pc = "resolved"
        => /\ ret.value # MsgIndexError
           /\ ~ret.raised
                => /\ TailOf(args) # {}
                   /\ \E i \in Rows : data[i].Time = next_date
                   /\ ~Earlier(next_date, args)

\* An exact match with the latest record: the tail subset is that one row.
C10_Witness ==
    /\ pc = "resolved"
    /\ ~ret.raised
    /\ ExactMatch(args)
    /\ Len(data) > 1
    /\ Cardinality(TailOf(args)) = 1
    /\ next_date = args

\* ---- C4 ----
\* The table holds no two rows with the same timestamp, as the Series of
\* spec.md does (the load itself drops no duplicate).
UniqueTimes == \A i, j \in Rows : data[i].Time = data[j].Time => i = j

\* The requested instant with its minutes zeroed.
FloorToHour(t) == [t EXCEPT !.minute = 0]

PrimaryAt(t) == {i \in Rows : data[i].Time = t /\ data[i].WW # NaN}

SecondaryAt(t) == {i \in Rows : data[i].Time = t /\ data[i].W1 # NaN}

\* C4: for a table of distinct timestamps and a resolved request, the weather
\* text is the primary code of the record at the requested instant with the
\* minutes zeroed when the hour is one of 3, 6, 9, 12, 15, 18, 21 and that
\* record holds a primary code; otherwise the secondary code of the record at
\* next_date when it holds one; otherwise the sentinel.  No error is raised.
C4_WeatherText ==
    (pc = "selected" /\ UniqueTimes)
        => /\ ~ret.raised
           /\ ret.value =
                IF args.hour \in {3, 6, 9, 12, 15, 18, 21} /\ PrimaryAt(FloorToHour(args)) # {}
                THEN data[CHOOSE i \in PrimaryAt(FloorToHour(args)) : TRUE].WW[1]
                ELSE IF SecondaryAt(next_date) # {}
                     THEN data[CHOOSE i \in SecondaryAt(next_date) : TRUE].W1[1]
                     ELSE NoWeatherInfo

\* A request at 03:30 that is answered from the primary code of the 03:00
\* record, while the 03:30 record exists and holds a primary code too.
C4_Witness ==
    /\ pc = "selected"
    /\ UniqueTimes
    /\ args.hour = 3
    /\ args.minute = 30
    /\ PrimaryAt(args) # {}
    /\ ret = Return("rain")

\* ---- C5 ----
MonthRowsOf(year, month) ==
    {i \in Rows : data[i].Time.year = year /\ data[i].Time.month = month}

DaysWithRows == {data[i].Time.day : i \in MonthRowsOf(args.year, args.month)}

\* The rows of day d of the requested month that hold a temperature.
Samples(d) ==
    {i \in MonthRowsOf(args.year, args.month) : data[i].Time.day = d /\ data[i].T # NaN}

DaysWithSamples == {d \in DaysWithRows : Samples(d) # {}}

RECURSIVE TotalT(_)
TotalT(S) ==
    IF S = {} THEN 0
    ELSE LET i == CHOOSE x \in S : TRUE IN data[i].T[1] + TotalT(S \ {i})

\* The fraction m is the mean of the samples of day d.
IsMeanOf(m, d) == m # NaN /\ m[1] * Cardinality(Samples(d)) = TotalT(Samples(d)) * m[2]

AggregateDays(avg) == {avg[k].date.day : k \in 1..Len(avg)}

InRequestedMonth(avg) ==
    \A k \in 1..Len(avg) :
        avg[k].date.year = args.year /\ avg[k].date.month = args.month

\* C5 as stated: the daily means hold exactly one aggregate per day of the
\* month that has a non-missing temperature, the mean of its samples; a day
\* whose samples are all missing has no aggregate.
C5_Original ==
    pc = "daily_avg"
        => LET avg == ret.value
           IN  /\ InRequestedMonth(avg)
               /\ AggregateDays(avg) = DaysWithSamples
               /\ Len(avg) = Cardinality(DaysWithSamples)
               /\ \A k \in 1..Len(avg) : IsMeanOf(avg[k].mean, avg[k].date.day)

\* C5 amended: the daily means hold exactly one aggregate per day of the
\* month that has a record; its value is the mean of the day's non-missing
\* samples, and the missing value when all of the day's samples are missing.
C5_DailyMeans ==
    pc = "daily_avg"
        => LET avg == ret.value
           IN  /\ InRequestedMonth(avg)
               /\ AggregateDays(avg) = DaysWithRows
               /\ Len(avg) = Cardinality(DaysWithRows)
               /\ \A k \in 1..Len(avg) :
                      IF Samples(avg[k].date.day) = {}
                      THEN avg[k].mean = NaN
                      ELSE IsMeanOf(avg[k].mean, avg[k].date.day)

\* A month with a day of two samples, 10 and 30, and a day whose only sample
\* is missing.
C5_Witness ==
    /\ pc = "daily_avg"
    /\ \E d \in DaysWithRows : Samples(d) = {}
    /\ \E d \in DaysWithSamples :
           Cardinality(Samples(d)) = 2 /\ TotalT(Samples(d)) = 40
    /\ Len(ret.value) = 2

\* ---- C6 ----
\* The mean of day d is at most, or equal to, the fraction m.
MeanAtMost(d, m) == TotalT(Samples(d)) * m[2] =< m[1] * Cardinality(Samples(d))

MeanIs(d, m) == TotalT(Samples(d)) * m[2] = m[1] * Cardinality(Samples(d))

\* The date a string "YYYY-MM-DD" names.
IsoDate(s) ==
    LET f == NumFields(s, 0, <<>>)
    IN  [year |-> f[1], month |-> f[2], day |-> f[3]]

\* C6: for a month with a non-missing temperature, the maximum returned is
\* the greatest of the daily means, and the days returned are exactly the
\* days of the month whose daily mean equals it, each once.
C6_MaxOfDailyMeans ==
    (pc = "max_temp" /\ DaysWithSamples # {})
        => LET m    == ret.value.max_temp
               strs == ret.value.max_days_str
               tied == {d \in DaysWithSamples : MeanIs(d, m)}
           IN  /\ m # NaN
               /\ \A d \in DaysWithSamples : MeanAtMost(d, m)
               /\ tied # {}
               /\ {IsoDate(strs[k]) : k \in 1..Len(strs)}
                      = {[year |-> args.year, month |-> args.month, day |-> d] : d \in tied}
               /\ Len(strs) = Cardinality(tied)

\* Two days tied at the mean 20, one of them holding the raw sample 30.
C6_Witness ==
    /\ pc = "max_temp"
    /\ Len(ret.value.max_days_str) = 2
    /\ ret.value.max_temp # NaN
    /\ ret.value.max_temp[1] = 20 * ret.value.max_temp[2]
    /\ \E i \in MonthRowsOf(args.year, args.month) : data[i].T = Cell(30)

\* ---- C7 ----
\* The Gregorian rules, stated on their own.
GregorianLeap(year) ==
    (year % 4 = 0 /\ year % 100 # 0) \/ year % 400 = 0

GregorianDays(year, month) ==
    CASE month \in {4, 6, 9, 11} -> 30
      [] month = 2 -> IF GregorianLeap(year) THEN 29 ELSE 28
      [] OTHER -> 31

\* C7: the day validation accepts the text iff it is not empty, has at most
\* 2 characters and reads as an integer d with 1 <= d <= the number of days
\* of the month under the Gregorian rules; an accepted text yields d.
C7_DayAccepted ==
    pc = "done"
        => LET d == PyInt(day_entry)
           IN  /\ ~ret.raised <=>
                      /\ day_entry # <<>>
                      /\ Len(day_entry) =< 2
                      /\ d.ok
                      /\ 1 =< d.val
                      /\ d.val =< GregorianDays(args.year, args.month)
               /\ ~ret.raised => ret.value = d.val

\* "007" is rejected for its length in a month where 7 is a day.
C7_Witness ==
    /\ pc = "done"
    /\ day_entry = <<"0", "0", "7">>
    /\ ret = Raise(MsgDayDigits)

\* ---- C8 ----
NoDuplicateTimes == \A i, j \in 1..Len(raw) : raw[i].Time = raw[j].Time => i = j

\* C8 as stated: a table of N rows without duplicate timestamps, in any row
\* order, loads into a Series of length N sorted ascending by timestamp.
C8_Original ==
    (pc = "loaded" /\ NoDuplicateTimes)
        => /\ Len(data) = Len(raw)
           /\ \A i, j \in Rows : i < j => ~Earlier(data[j].Time, data[i].Time)

\* C8 amended: a table of N rows without duplicate timestamps loads into a
\* Series of length N that holds the rows in the order of the table: row i of
\* the Series has the timestamp and the cells of row i of the table.
C8_LoadKeepsOrder ==
    (pc = "loaded" /\ NoDuplicateTimes)
        => /\ Len(data) = Len(raw)
           /\ \A i \in Rows :
                  /\ FormatDate(data[i].Time.year, data[i].Time.month, data[i].Time.day,
                                data[i].Time.hour, data[i].Time.minute) = raw[i].Time
                  /\ data[i].T = raw[i].T
                  /\ data[i].P = raw[i].P
                  /\ data[i].WW = raw[i].WW
                  /\ data[i].W1 = raw[i].W1

\* A loaded table of three rows whose second row is the earliest.
C8_Witness ==
    /\ pc = "loaded"
    /\ NoDuplicateTimes
    /\ Len(data) = 3
    /\ Earlier(data[2].Time, data[1].Time)
    /\ Earlier(data[1].Time, data[3].Time)

\* ---- C9 ----
\* What the widgets hold, read on their own.
MonthGiven == months_var # <<>>

YearGiven == years_var # <<>>

ReqYear == PyInt(years_var).val

ReqMonth == PyInt(months_var).val

DayGood ==
    /\ day_entry # <<>>
    /\ Len(day_entry) =< 2
    /\ PyInt(day_entry).ok
    /\ PyInt(day_entry).val \in 1..GregorianDays(ReqYear, ReqMonth)

HourGood ==
    /\ hour_entry # <<>>
    /\ Len(hour_entry) =< 2
    /\ PyInt(hour_entry).ok
    /\ PyInt(hour_entry).val \in 0..23

MinuteGood ==
    /\ minute_entry # <<>>
    /\ Len(minute_entry) =< 2
    /\ PyInt(minute_entry).ok
    /\ PyInt(minute_entry).val \in 0..59

ReqInstant ==
    [year |-> ReqYear, month |-> ReqMonth, day |-> PyInt(day_entry).val,
     hour |-> PyInt(hour_entry).val, minute |-> PyInt(minute_entry).val]

Resolvable ==
    /\ MonthHasRecord(ReqYear, ReqMonth)
    /\ \/ ExactMatch(ReqInstant)
       \/ TailOf(ReqInstant) # {} /\ TailOf(ReqInstant) # Rows

\* The first check, in the order month, year, day, hour, minute, resolver,
\* that the widgets fail.
FirstFailure ==
    CASE ~MonthGiven -> "month"
      [] MonthGiven /\ ~YearGiven -> "year"
      [] MonthGiven /\ YearGiven /\ ~DayGood -> "day"
      [] MonthGiven /\ YearGiven /\ DayGood /\ ~HourGood -> "hour"
      [] MonthGiven /\ YearGiven /\ DayGood /\ HourGood /\ ~MinuteGood -> "minute"
      [] MonthGiven /\ YearGiven /\ DayGood /\ HourGood /\ MinuteGood /\ ~Resolvable
            -> "resolver"
      [] OTHER -> "none"

\* The messages each check can raise.
MessagesOf(check) ==
    CASE check = "month" -> {MsgNoMonth}
      [] check = "year" -> {MsgNoYear}
      [] check = "day" ->
            {MsgNoDay, MsgDayDigits, MsgNotInt(day_entry)}
                \cup {MsgDayRange(m, n) : m \in 1..12, n \in 28..31}
      [] check = "hour" -> {MsgNoHour, MsgHourDigits, MsgHourRange, MsgNotInt(hour_entry)}
      [] check = "minute" ->
            {MsgNoMinute, MsgMinuteDigits, MsgMinuteRange, MsgNotInt(minute_entry)}
      [] check = "resolver" -> {MsgNoMonthData, MsgNotForecast, MsgSince2005}
      [] OTHER -> {}

\* C9: right after a request, whatever the requests before it were: if the
\* widgets fail a check, no window was opened and the error raised is one of
\* the first failing check, in the order month, year, day, hour, minute,
\* resolver; if they pass all six, a window was opened, and the date and
\* next_date it read are those of this request: the requested instant and the
\* timestamp of the last row of its tail subset.
C9_RequestOutcome ==
    (pc = "ready" /\ hist.fresh)
        => IF FirstFailure = "none"
           THEN /\ hist.last = "rendered"
                /\ ~ret.raised
                /\ window # NoWindow
                /\ window.date = ReqInstant
                /\ window.next_date = data[LastOfTail(ReqInstant)].Time
                /\ date = window.date
                /\ next_date = window.next_date
           ELSE /\ hist.last = "failed"
                /\ window = NoWindow
                /\ ret.raised
                /\ ret.value \in MessagesOf(FirstFailure)

\* A request that opened a window right after a request that failed, with a
\* next_date later than the requested instant.
C9_Witness ==
    /\ pc = "ready"
    /\ hist = [prev |-> "failed", last |-> "rendered", fresh |-> TRUE]
    /\ window # NoWindow
    /\ window.date = ReqInstant
    /\ window.next_date # window.date

====
